---- MODULE Spec2Model ----
(***************************************************************************)
(* LogicLock: the circuit evaluator (logicService), the turn/hand state    *)
(* machine of App (React state, handlers, the AI turn effect) and the      *)
(* validation of the automated opponent's proposals (performAIMove).       *)
(*                                                                         *)
(* React state is one variable per useState; a handler is one action (its  *)
(* setState calls are batched into one render).  A closure that survives   *)
(* an await (performAIMove) carries the board, inputs and hand of the      *)
(* render that created it.                                                 *)
(***************************************************************************)
EXTENDS Integers, Sequences, FiniteSets, TLC

VARIABLES
    gameStarted,        \* useState(false)
    isAI,               \* useState(false)
    board,              \* useState<BoardNode[]>(INITIAL_BOARD): slot -> [gate, value]
    inputs,             \* useState<(0|1)[]>([])
    players,            \* useState<Record<PlayerId, Player>>: player id -> hand
    turn,               \* useState<PlayerId>('P1')
    winner,             \* useState<PlayerId | 'DRAW' | null>(null)
    selectedCardIndex,  \* useState<number | null>(null)
    isThinking,         \* useState(false)
    aiTasks,            \* performAIMove calls suspended at an await, with their closures
    effDeps,            \* the dependency array the AI turn effect last ran with
    last,               \* the handler that ran last, what it was given, how often it
                        \* called executeMove and getRandomGate
    odd,                \* how often getRandomGate() returned another gate than the
                        \* first of DrawOrder, or generateInputs() another vector
                        \* than its first (bounds the exploration)
    commentary,         \* useState<string>("System initialized. ..."): the text shown
    comments            \* getCommentary() calls not yet settled; MaxPending stands
                        \* for MaxPending or more

vars == <<gameStarted, isAI, board, inputs, players, turn, winner,
          selectedCardIndex, isThinking, aiTasks, effDeps, last, odd,
          commentary, comments>>

(***************************************************************************)
(* Bounds of the exploration.                                              *)
(***************************************************************************)
NumGateKinds == 2    \* getRandomGate() yields one of the first NumGateKinds of DrawOrder
NumInputVecs == 2    \* generateInputs() yields one of the first NumInputVecs vectors
MaxOdd == 1          \* in one run at most MaxOdd of these results are not the first
MaxPending == 1      \* getCommentary() calls in flight are counted up to MaxPending

(***************************************************************************)
(* types.ts                                                                *)
(***************************************************************************)
GateValues == <<"AND", "OR", "XOR", "NAND", "NOR">>   \* Object.values(GateType)
GateType == {GateValues[i] : i \in 1..Len(GateValues)}
PlayerId == {"P1", "P2"}
NullGate == "null"      \* gate: GateType | null
NullVal == -1           \* value: 0 | 1 | null
NullWinner == "null"    \* winner: PlayerId | 'DRAW' | null
NullIdx == -1           \* selectedCardIndex / handIndexToRemove: number | null | undefined

INITIAL_HAND_SIZE == 3
INITIAL_INPUTS_COUNT == 8
BOARD_SIZE == 7
Slots == 0..(BOARD_SIZE - 1)

(***************************************************************************)
(* logicService                                                            *)
(***************************************************************************)
\* bit j (1-based) of the input vector coded by n
InputBits(n) == [j \in 1..INITIAL_INPUTS_COUNT |-> (n \div (2 ^ (j - 1))) % 2]

\* the vectors Math.random() may produce: [1,1,0,0,1,1,0,0], [1,0,1,0,1,0,1,0], ...
generateInputs ==
    {InputBits((51 + 34 * (n - 1)) % 256) : n \in 1..NumInputVecs}

\* the order in which the exploration adds gate types to the random source
DrawOrder == <<"NAND", "NOR", "XOR", "OR", "AND">>

\* the values Math.random() lets getRandomGate() return
getRandomGate ==
    {DrawOrder[i] : i \in 1..(IF NumGateKinds < Len(DrawOrder)
                               THEN NumGateKinds ELSE Len(DrawOrder))}

Truthy(a) == a = 1

\* an evaluator whose XOR case answers as OR does
evaluateGate_xorAsOr(type, a, b) ==
    CASE type = "AND"  -> IF Truthy(a) /\ Truthy(b) THEN 1 ELSE 0
      [] type = "OR"   -> IF Truthy(a) \/ Truthy(b) THEN 1 ELSE 0
      [] type = "XOR"  -> IF Truthy(a) \/ Truthy(b) THEN 1 ELSE 0
      [] type = "NAND" -> IF ~(Truthy(a) /\ Truthy(b)) THEN 1 ELSE 0
      [] type = "NOR"  -> IF ~(Truthy(a) \/ Truthy(b)) THEN 1 ELSE 0
      [] OTHER         -> 0

evaluateGate(type, a, b) ==
    CASE type = "AND"  -> IF Truthy(a) /\ Truthy(b) THEN 1 ELSE 0
      [] type = "OR"   -> IF Truthy(a) \/ Truthy(b) THEN 1 ELSE 0
      [] type = "XOR"  -> IF a # b THEN 1 ELSE 0
      [] type = "NAND" -> IF ~(Truthy(a) /\ Truthy(b)) THEN 1 ELSE 0
      [] type = "NOR"  -> IF ~(Truthy(a) \/ Truthy(b)) THEN 1 ELSE 0
      [] OTHER         -> 0

\* a loop that runs from slot 0 up to slot 6: the inner slots read the values
\* the board passed in holds
RECURSIVE evaluateLoop_ascending(_, _, _)
evaluateLoop_ascending(newNodes, ins, i) ==
    IF i < 0 THEN newNodes
    ELSE LET k == BOARD_SIZE - 1 - i
             node == newNodes[k]
             valA == IF k >= 3 THEN ins[(k - 3) * 2 + 1]
                               ELSE newNodes[k * 2 + 1].value
             valB == IF k >= 3 THEN ins[(k - 3) * 2 + 2]
                               ELSE newNodes[k * 2 + 2].value
             v    == IF node.gate = NullGate THEN NullVal
                     ELSE IF valA # NullVal /\ valB # NullVal
                          THEN evaluateGate(node.gate, valA, valB)
                          ELSE NullVal
         IN  evaluateLoop_ascending([newNodes EXCEPT ![k].value = v], ins, i - 1)

\* a loop that reads a missing operand as 0 instead of leaving the value unset
RECURSIVE evaluateLoop_missingIsZero(_, _, _)
evaluateLoop_missingIsZero(newNodes, ins, i) ==
    IF i < 0 THEN newNodes
    ELSE LET node == newNodes[i]
             valA == IF i >= 3 THEN ins[(i - 3) * 2 + 1]
                               ELSE newNodes[i * 2 + 1].value
             valB == IF i >= 3 THEN ins[(i - 3) * 2 + 2]
                               ELSE newNodes[i * 2 + 2].value
             v    == IF node.gate = NullGate THEN NullVal
                     ELSE evaluateGate(node.gate,
                                       IF valA = NullVal THEN 0 ELSE valA,
                                       IF valB = NullVal THEN 0 ELSE valB)
         IN  evaluateLoop_missingIsZero([newNodes EXCEPT ![i].value = v], ins, i - 1)

\* a loop that stops above slot 0, so the root keeps the value passed in
RECURSIVE evaluateLoop_skipsRoot(_, _, _)
evaluateLoop_skipsRoot(newNodes, ins, i) ==
    IF i < 1 THEN newNodes
    ELSE LET node == newNodes[i]
             valA == IF i >= 3 THEN ins[(i - 3) * 2 + 1]
                               ELSE newNodes[i * 2 + 1].value
             valB == IF i >= 3 THEN ins[(i - 3) * 2 + 2]
                               ELSE newNodes[i * 2 + 2].value
             v    == IF node.gate = NullGate THEN NullVal
                     ELSE IF valA # NullVal /\ valB # NullVal
                          THEN evaluateGate(node.gate, valA, valB)
                          ELSE NullVal
         IN  evaluateLoop_skipsRoot([newNodes EXCEPT ![i].value = v], ins, i - 1)

\* the bottom-up loop of evaluateBoard: slot i, then i-1, ... down to 0
RECURSIVE evaluateLoop(_, _, _)
evaluateLoop(newNodes, ins, i) ==
    IF i < 0 THEN newNodes
    ELSE LET node == newNodes[i]
             valA == IF i >= 3 THEN ins[(i - 3) * 2 + 1]
                               ELSE newNodes[i * 2 + 1].value
             valB == IF i >= 3 THEN ins[(i - 3) * 2 + 2]
                               ELSE newNodes[i * 2 + 2].value
             v    == IF node.gate = NullGate THEN NullVal
                     ELSE IF valA # NullVal /\ valB # NullVal
                          THEN evaluateGate(node.gate, valA, valB)
                          ELSE NullVal
         IN  evaluateLoop([newNodes EXCEPT ![i].value = v], ins, i - 1)

evaluateBoard(nodes, ins) == evaluateLoop(nodes, ins, BOARD_SIZE - 1)

\* the least element of a set of numbers
Lowest(S) == CHOOSE n \in S : \A m \in S : n <= m

\* board.filter(n => n.gate === null), as slot ids
EmptySlots(nodes) == {n \in Slots : nodes[n].gate = NullGate}

\* a check that reads the root without asking whether the board is full
checkWinCondition_rootOnly(nodes) ==
    IF nodes[0].value = 1 THEN "P1"
    ELSE IF nodes[0].value = 0 THEN "P2"
    ELSE NullWinner

\* a check that takes one gate for a full board: nodes.some for nodes.every
checkWinCondition_some(nodes) ==
    LET isFull == \E n \in Slots : nodes[n].gate # NullGate
    IN  IF isFull
        THEN IF nodes[0].value = 1 THEN "P1"
             ELSE IF nodes[0].value = 0 THEN "P2"
             ELSE "DRAW"
        ELSE NullWinner

checkWinCondition(nodes) ==
    LET isFull == \A n \in Slots : nodes[n].gate # NullGate
    IN  IF isFull
        THEN IF nodes[0].value = 1 THEN "P1"
             ELSE IF nodes[0].value = 0 THEN "P2"
             ELSE "DRAW"
        ELSE NullWinner

(***************************************************************************)
(* App: construction                                                       *)
(***************************************************************************)
\* how many of the gates drawn are not the first of DrawOrder
OddCount(draws) == Cardinality({j \in 1..Len(draws) : draws[j] # DrawOrder[1]})

\* the results of n calls of getRandomGate() when k of them may be odd:
\* Array.from({ length: n }, () => getRandomGate())
RandomHands(n, k) == {h \in [1..n -> getRandomGate] : OddCount(h) <= k}

\* 1 if the input vector is not the first that generateInputs() yields
OddInputs(ins) == IF ins = InputBits(51) THEN 0 ELSE 1

\* the results of generateInputs() when k random results may be odd
RandomInputs(k) == {ins \in generateInputs : OddInputs(ins) <= k}

\* P1: createPlayer('P1', ...), P2: createPlayer('P2', ...)
createPlayers(k) ==
    {ps \in [PlayerId -> RandomHands(INITIAL_HAND_SIZE, k)] :
        OddCount(ps["P1"]) + OddCount(ps["P2"]) <= k}

INITIAL_BOARD == [i \in Slots |-> [gate |-> NullGate, value |-> NullVal]]

\* [turn, isAI, gameStarted, winner]
Deps == <<turn, isAI, gameStarted, winner>>

NoSlot == [has |-> FALSE, isNum |-> FALSE, num |-> 0, key |-> ""]
NumSlot(n) == [has |-> TRUE, isNum |-> TRUE, num |-> n, key |-> ""]
KeySlot(k) == [has |-> TRUE, isNum |-> FALSE, num |-> 0, key |-> k]

Call(actionType, playerId, slotId, gate, handIdx) ==
    [actionType |-> actionType, playerId |-> playerId, slotId |-> slotId,
     gate |-> gate, handIdx |-> handIdx]

Last(op, kind, tag, branch, moves, drawn) ==
    [op |-> op, kind |-> kind, tag |-> tag, branch |-> branch, moves |-> moves,
     drawn |-> drawn]

Init ==
    /\ gameStarted = FALSE
    /\ isAI = FALSE
    /\ board = INITIAL_BOARD
    /\ inputs = <<>>
    /\ players \in createPlayers(MaxOdd)
    /\ odd = OddCount(players["P1"]) + OddCount(players["P2"])
    /\ turn = "P1"
    /\ winner = NullWinner
    /\ selectedCardIndex = NullIdx
    /\ isThinking = FALSE
    /\ aiTasks = <<>>
    /\ effDeps = Deps
    /\ last = Last("init", "none", "none", "none", 0, 2 * INITIAL_HAND_SIZE)
    /\ commentary = "initialized"
    /\ comments = 0

(***************************************************************************)
(* App: executeMove                                                        *)
(***************************************************************************)
\* one more getCommentary() call in flight
More(n) == IF n < MaxPending THEN n + 1 ELSE MaxPending

\* the React state executeMove writes
GameState ==
    [board |-> board, winner |-> winner, players |-> players,
     selectedCardIndex |-> selectedCardIndex, turn |-> turn,
     isThinking |-> isThinking, commentary |-> commentary,
     comments |-> comments]

\* what a handler's closure holds: board, inputs, the acting player's hand
Closure(playerId) ==
    [board |-> board, inputs |-> inputs, hand |-> players[playerId]]

\* hand.shift(): the first card is removed whatever the index
Splice_first(hand, idx) ==
    IF idx \in 0..(Len(hand) - 1)
    THEN SubSeq(hand, 2, Len(hand))
    ELSE hand

\* hand.splice(idx, 1), idx 0-based
Splice(hand, idx) ==
    IF idx \in 0..(Len(hand) - 1)
    THEN SubSeq(hand, 1, idx) \o SubSeq(hand, idx + 2, Len(hand))
    ELSE hand

\* hand.lastIndexOf(g)
IndexOf_last(hand, g) ==
    IF \E j \in 1..Len(hand) : hand[j] = g
    THEN (CHOOSE j \in 1..Len(hand) :
             hand[j] = g /\ \A h \in (j + 1)..Len(hand) : hand[h] # g) - 1
    ELSE -1

\* hand.indexOf(g), 0-based, -1 when absent
IndexOf(hand, g) ==
    IF \E j \in 1..Len(hand) : hand[j] = g
    THEN (CHOOSE j \in 1..Len(hand) :
             hand[j] = g /\ \A h \in 1..(j - 1) : hand[h] # g) - 1
    ELSE -1

\* newBoard[slotId] = { ...newBoard[slotId], gate }: a key that is no index of
\* the array sets a property that evaluateBoard's [...nodes] does not copy
PlaceOn(nodes, slotId, gate) ==
    IF slotId.isNum /\ slotId.num \in Slots
    THEN [nodes EXCEPT ![slotId.num].gate = gate]
    ELSE nodes

\* the condition of executeMove's PLACE branch
IsPlace(call) ==
    /\ call.actionType = "PLACE"
    /\ call.slotId.has
    /\ call.gate # NullGate
    /\ call.handIdx # NullIdx

\* how many getRandomGate() calls executeMove makes
DrawCount(call, cl) ==
    IF IsPlace(call)
    THEN IF checkWinCondition(evaluateBoard(
                PlaceOn(cl.board, call.slotId, call.gate), cl.inputs)) # NullWinner
         THEN 0
         ELSE IF Len(Splice(cl.hand, call.handIdx)) < 3
              THEN 3 - Len(Splice(cl.hand, call.handIdx)) ELSE 0
    ELSE IF call.actionType = "DISCARD" THEN INITIAL_HAND_SIZE
    ELSE 0

\* an end of turn that leaves the thinking flag set
EndOfTurn_stillThinking(s, playerId) ==
    [s EXCEPT !.selectedCardIndex = NullIdx,
              !.turn = IF playerId = "P1" THEN "P2" ELSE "P1",
              !.comments = More(@),
              !.isThinking = TRUE]

\* an end of turn that leaves the turn with the player who moved
EndOfTurn_sameTurn(s, playerId) ==
    [s EXCEPT !.selectedCardIndex = NullIdx,
              !.turn = playerId,
              !.comments = More(@),
              !.isThinking = FALSE]

\* executeMove's "5. End Turn": the selection is dropped, the turn passes, the
\* thinking flag is cleared
EndOfTurn(s, playerId) ==
    [s EXCEPT !.selectedCardIndex = NullIdx,
              !.turn = IF playerId = "P1" THEN "P2" ELSE "P1",
              !.comments = More(@),
              !.isThinking = FALSE]

\* an executeMove without the return after the win check: the end of turn
\* runs after the deciding placement too
executeMove_passesOnWin(s, call, cl, draws) ==
        IF IsPlace(call)
        THEN LET newBoard == PlaceOn(cl.board, call.slotId, call.gate)
                 evaluatedBoard == evaluateBoard(newBoard, cl.inputs)
                 winResult == checkWinCondition(evaluatedBoard)
                 spliced == Splice(cl.hand, call.handIdx)
                 newHand == spliced \o draws
             IN  IF winResult # NullWinner
                 THEN EndOfTurn([s EXCEPT !.board = evaluatedBoard,
                                          !.winner = winResult,
                                          !.commentary = "wins"],
                                call.playerId)
                 ELSE EndOfTurn([s EXCEPT !.board = evaluatedBoard,
                                          !.players[call.playerId] = newHand],
                                call.playerId)
        ELSE IF call.actionType = "DISCARD"
        THEN EndOfTurn([s EXCEPT !.players[call.playerId] = draws], call.playerId)
        ELSE EndOfTurn(s, call.playerId)

\* an executeMove whose DISCARD deals the new hand to the other player than
\* the one who discards
executeMove_otherHand(s, call, cl, draws) ==
        IF IsPlace(call)
        THEN LET newBoard == PlaceOn(cl.board, call.slotId, call.gate)
                 evaluatedBoard == evaluateBoard(newBoard, cl.inputs)
                 winResult == checkWinCondition(evaluatedBoard)
                 spliced == Splice(cl.hand, call.handIdx)
                 newHand == spliced \o draws
             IN  IF winResult # NullWinner
                 THEN [s EXCEPT !.board = evaluatedBoard,
                                !.winner = winResult,
                                !.commentary = "wins",
                                !.isThinking = FALSE]
                 ELSE EndOfTurn([s EXCEPT !.board = evaluatedBoard,
                                          !.players[call.playerId] = newHand],
                                call.playerId)
        ELSE IF call.actionType = "DISCARD"
        THEN EndOfTurn([s EXCEPT !.players[IF call.playerId = "P1"
                                           THEN "P2" ELSE "P1"] = draws],
                       call.playerId)
        ELSE EndOfTurn(s, call.playerId)

\* executeMove run in the closure cl on the React state s, with draws the
\* results of its getRandomGate() calls; the state it leaves
executeMove(s, call, cl, draws) ==
        IF IsPlace(call)
        THEN LET newBoard == PlaceOn(cl.board, call.slotId, call.gate)
                 evaluatedBoard == evaluateBoard(newBoard, cl.inputs)
                 winResult == checkWinCondition(evaluatedBoard)
                 spliced == Splice(cl.hand, call.handIdx)
                 newHand == spliced \o draws
             IN  IF winResult # NullWinner
                 THEN [s EXCEPT !.board = evaluatedBoard,
                                !.winner = winResult,
                                !.commentary = "wins",
                                !.isThinking = FALSE]
                 ELSE EndOfTurn([s EXCEPT !.board = evaluatedBoard,
                                          !.players[call.playerId] = newHand],
                                call.playerId)
        ELSE IF call.actionType = "DISCARD"
        THEN EndOfTurn([s EXCEPT !.players[call.playerId] = draws], call.playerId)
        ELSE EndOfTurn(s, call.playerId)

\* the render after executeMove left the state s
Commit(s) ==
    \E t \in {s} :
        /\ board' = t.board
        /\ winner' = t.winner
        /\ players' = t.players
        /\ selectedCardIndex' = t.selectedCardIndex
        /\ turn' = t.turn
        /\ isThinking' = t.isThinking
        /\ commentary' = t.commentary
        /\ comments' = t.comments

NoEffectPending == effDeps = Deps

(***************************************************************************)
(* App: handlers                                                           *)
(***************************************************************************)
\* a start that forgets setTurn('P1')
StartState_keepsTurn(aiMode) ==
    /\ isAI' = aiMode
    /\ board' = INITIAL_BOARD
    /\ inputs' \in RandomInputs(MaxOdd - odd)
    /\ players' \in createPlayers(MaxOdd - odd - OddInputs(inputs'))
    /\ odd' = odd + OddInputs(inputs')
                 + OddCount(players'["P1"]) + OddCount(players'["P2"])
    /\ turn' = turn
    /\ winner' = NullWinner
    /\ commentary' = "started"
    /\ gameStarted' = TRUE
    /\ selectedCardIndex' = NullIdx
    /\ UNCHANGED <<isThinking, aiTasks, effDeps, comments>>

StartState(aiMode) ==
    /\ isAI' = aiMode
    /\ board' = INITIAL_BOARD
    /\ inputs' \in RandomInputs(MaxOdd - odd)
    /\ players' \in createPlayers(MaxOdd - odd - OddInputs(inputs'))
    /\ odd' = odd + OddInputs(inputs')
                 + OddCount(players'["P1"]) + OddCount(players'["P2"])
    /\ turn' = "P1"
    /\ winner' = NullWinner
    /\ commentary' = "started"
    /\ gameStarted' = TRUE
    /\ selectedCardIndex' = NullIdx
    /\ UNCHANGED <<isThinking, aiTasks, effDeps, comments>>

\* the two buttons of the start screen
startGame(aiMode) ==
    /\ NoEffectPending
    /\ ~gameStarted
    /\ StartState(aiMode)
    /\ last' = Last("startGame", "none", "none", "none", 0, 2 * INITIAL_HAND_SIZE)

\* the header's Reset button and the winner overlay's PLAY AGAIN
resetGame ==
    /\ NoEffectPending
    /\ gameStarted
    /\ StartState(isAI)
    /\ last' = Last("resetGame", "none", "none", "none", 0, 2 * INITIAL_HAND_SIZE)

\* a card of the hand shown as the current player's
handleCardSelect(index) ==
    /\ NoEffectPending
    /\ gameStarted
    /\ ~(winner # NullWinner \/ isThinking)
    /\ ~(isAI /\ turn = "P2")
    /\ selectedCardIndex' = IF selectedCardIndex = index THEN NullIdx ELSE index
    /\ last' = Last("handleCardSelect", "none", "none", "none", 0, 0)
    /\ UNCHANGED <<commentary, comments>>
    /\ UNCHANGED <<gameStarted, isAI, board, inputs, players, turn, winner,
                   isThinking, aiTasks, effDeps, odd>>

handleSlotClick(slotId) ==
    /\ NoEffectPending
    /\ gameStarted
    /\ ~(winner # NullWinner \/ isThinking)
    /\ selectedCardIndex # NullIdx
    /\ board[slotId].gate = NullGate
    /\ LET cl == Closure(turn)
           call == Call("PLACE", turn, NumSlot(slotId),
                        cl.hand[selectedCardIndex + 1], selectedCardIndex)
       IN  \E draws \in RandomHands(DrawCount(call, cl), MaxOdd - odd) :
              /\ Commit(executeMove(GameState, call, cl, draws))
              /\ odd' = odd + OddCount(draws)
              /\ last' = Last("handleSlotClick", "none", "none", "none", 1, Len(draws))
    /\ UNCHANGED <<gameStarted, isAI, inputs, aiTasks, effDeps>>

\* a DISCARD button that does not ask whether the match is decided
handleDiscardHand_afterWin ==
    /\ NoEffectPending
    /\ gameStarted
    /\ ~(isAI /\ turn = "P2")
    /\ ~isThinking
    /\ LET cl == Closure(turn)
           call == Call("DISCARD", turn, NoSlot, NullGate, NullIdx)
       IN  \E draws \in RandomHands(DrawCount(call, cl), MaxOdd - odd) :
              /\ Commit(executeMove(GameState, call, cl, draws))
              /\ odd' = odd + OddCount(draws)
              /\ last' = Last("handleDiscardHand", "none", "none", "none", 1, Len(draws))
    /\ UNCHANGED <<gameStarted, isAI, inputs, aiTasks, effDeps>>

\* a DISCARD button that does not ask whether a move is being applied
handleDiscardHand_whileThinking ==
    /\ NoEffectPending
    /\ gameStarted
    /\ ~(isAI /\ turn = "P2")
    /\ winner = NullWinner
    /\ LET cl == Closure(turn)
           call == Call("DISCARD", turn, NoSlot, NullGate, NullIdx)
       IN  \E draws \in RandomHands(DrawCount(call, cl), MaxOdd - odd) :
              /\ Commit(executeMove(GameState, call, cl, draws))
              /\ odd' = odd + OddCount(draws)
              /\ last' = Last("handleDiscardHand", "none", "none", "none", 1, Len(draws))
    /\ UNCHANGED <<gameStarted, isAI, inputs, aiTasks, effDeps>>

\* the DISCARD (SKIP) button, rendered for the player whose turn it is
handleDiscardHand ==
    /\ NoEffectPending
    /\ gameStarted
    /\ ~(isAI /\ turn = "P2")
    /\ ~(winner # NullWinner \/ isThinking)
    /\ LET cl == Closure(turn)
           call == Call("DISCARD", turn, NoSlot, NullGate, NullIdx)
       IN  \E draws \in RandomHands(DrawCount(call, cl), MaxOdd - odd) :
              /\ Commit(executeMove(GameState, call, cl, draws))
              /\ odd' = odd + OddCount(draws)
              /\ last' = Last("handleDiscardHand", "none", "none", "none", 1, Len(draws))
    /\ UNCHANGED <<gameStarted, isAI, inputs, aiTasks, effDeps>>

(***************************************************************************)
(* geminiService: getAIMove                                                *)
(***************************************************************************)
Move(actionType, hasSlot, slotId, gateType) ==
    [actionType |-> actionType, hasSlot |-> hasSlot, slotId |-> slotId,
     gateType |-> gateType]

NoMove == Move("none", FALSE, 0, NullGate)

\* what JSON.parse(response.text) may hold: any action tag, slotId absent or any
\* integer, gateType absent or any gate name
Proposals ==
    {Move("PLACE", TRUE, n, g) : n \in Slots, g \in {"NAND", "NOR", "AND"}}
    \cup {Move("PLACE", TRUE, n, "NAND") : n \in {-1, BOARD_SIZE, 99}}
    \cup {Move("PLACE", TRUE, n, NullGate) : n \in {0, 3}}
    \cup {Move("PLACE", FALSE, 0, g) : g \in {"NAND", NullGate}}
    \cup {Move("OTHER", TRUE, n, "NAND") : n \in {0, 3, 99}}
    \cup {Move("OTHER", TRUE, 0, NullGate), Move("OTHER", FALSE, 0, "NAND")}
    \cup {Move("DISCARD", TRUE, 0, "NAND"), Move("DISCARD", FALSE, 0, NullGate)}

\* the outcome of the model call: a parsed proposal, or a failure (the call
\* rejects, returns no text or no JSON) with the catch block's random picks:
\* pick = -1 is Math.random() < 0.1, otherwise pick is the random empty slot
Responses ==
    {[kind |-> "ok", move |-> m, pick |-> -1] : m \in Proposals}
    \cup {[kind |-> "fail", move |-> NoMove, pick |-> p] : p \in {-1} \cup Slots}

\* a failure's picks are picks the catch block can make on this board
Possible(cl, r) ==
    r.kind = "fail" =>
        IF EmptySlots(cl.board) = {} THEN r.pick = -1
        ELSE r.pick = -1 \/ r.pick \in EmptySlots(cl.board)

\* a getAIMove whose catch block rethrows
getAIMove_rethrows(cl, r) ==
    IF r.kind = "ok" THEN [threw |-> FALSE, move |-> r.move]
    ELSE [threw |-> TRUE, move |-> NoMove]

\* getAIMove(board, inputs, hand) for the response r: the move it returns, or threw
getAIMove(cl, r) ==
    IF r.kind = "ok" THEN [threw |-> FALSE, move |-> r.move]
    ELSE IF EmptySlots(cl.board) = {} THEN [threw |-> TRUE, move |-> NoMove]
    ELSE IF r.pick = -1
         THEN [threw |-> FALSE, move |-> Move("DISCARD", FALSE, 0, NullGate)]
         ELSE [threw |-> FALSE, move |-> Move("PLACE", TRUE, r.pick, cl.hand[1])]

(***************************************************************************)
(* App: the AI turn effect and performAIMove                               *)
(***************************************************************************)
DiscardP2 == Call("DISCARD", "P2", NoSlot, NullGate, NullIdx)

\* a check that plays the last card of the hand for a gate that is not held
ValidCard_lastCard(hand, gateType) ==
    LET gateIdx == IndexOf(hand, gateType)
    IN  [idx |-> IF gateIdx > -1 THEN gateIdx ELSE Len(hand) - 1,
         gate |-> IF gateIdx > -1 THEN gateType ELSE hand[Len(hand)],
         held |-> gateIdx > -1]

\* "Safety checks if AI hallucinated card": the index and the gate to play
ValidCard(hand, gateType) ==
    LET gateIdx == IndexOf(hand, gateType)
    IN  [idx |-> IF gateIdx > -1 THEN gateIdx ELSE 0,
         gate |-> IF gateIdx > -1 THEN gateType ELSE hand[1],
         held |-> gateIdx > -1]

\* "Validations for PLACE": the else branch of performAIMove, which every move
\* that is no DISCARD takes; a throw ends in the catch block's DISCARD
Validate(cl, aiMove) ==
    IF ~aiMove.hasSlot                 \* throw new Error("Missing slotId")
    THEN [branch |-> "missingSlot", call |-> DiscardP2]
    ELSE IF aiMove.gateType = NullGate \* throw new Error("Missing gateType")
    THEN [branch |-> "missingGate", call |-> DiscardP2]
    ELSE IF aiMove.slotId \notin Slots \* board[slotId] is undefined: TypeError
    THEN [branch |-> "noSuchSlot", call |-> DiscardP2]
    ELSE IF cl.board[aiMove.slotId].gate # NullGate
    THEN IF EmptySlots(cl.board) # {}
         THEN \* executeMove('PLACE', 'P2', hand[handIdx], hand[handIdx], handIdx)
              [branch |-> "filledFallback",
               call |-> Call("PLACE", "P2", KeySlot(cl.hand[1]), cl.hand[1], 0)]
         ELSE [branch |-> "filledNoEmpty", call |-> DiscardP2]
    ELSE LET card == ValidCard(cl.hand, aiMove.gateType)
         IN  [branch |-> IF card.held THEN "place" ELSE "placeFirstCard",
              call |-> Call("PLACE", "P2", NumSlot(aiMove.slotId), card.gate, card.idx)]

\* a performAIMove that takes the first empty slot for a slotId that is absent
\* or names no slot
performAIMove_firstEmptySlot(cl, res) ==
    IF res.threw
    THEN [branch |-> "fetchThrew", call |-> DiscardP2]
    ELSE IF res.move.actionType = "DISCARD"
    THEN [branch |-> "discard", call |-> DiscardP2]
    ELSE IF (~res.move.hasSlot \/ res.move.slotId \notin Slots)
            /\ EmptySlots(cl.board) # {}
    THEN Validate(cl, [res.move EXCEPT !.hasSlot = TRUE,
                                       !.slotId = Lowest(EmptySlots(cl.board))])
    ELSE Validate(cl, res.move)

\* a performAIMove that takes the first card for a gateType that is absent
performAIMove_firstCard(cl, res) ==
    IF res.threw
    THEN [branch |-> "fetchThrew", call |-> DiscardP2]
    ELSE IF res.move.actionType = "DISCARD"
    THEN [branch |-> "discard", call |-> DiscardP2]
    ELSE IF res.move.gateType = NullGate
    THEN Validate(cl, [res.move EXCEPT !.gateType = cl.hand[1]])
    ELSE Validate(cl, res.move)

\* a performAIMove that discards on every tag but PLACE
performAIMove_discardsUnknownTag(cl, res) ==
    IF res.threw
    THEN [branch |-> "fetchThrew", call |-> DiscardP2]
    ELSE IF res.move.actionType # "PLACE"
    THEN [branch |-> "discard", call |-> DiscardP2]
    ELSE Validate(cl, res.move)

\* the body of performAIMove after getAIMove settled with res: the branch
\* taken and the executeMove call it makes
performAIMove(cl, res) ==
    IF res.threw
    THEN [branch |-> "fetchThrew", call |-> DiscardP2]
    ELSE IF res.move.actionType = "DISCARD"
    THEN [branch |-> "discard", call |-> DiscardP2]
    ELSE Validate(cl, res.move)

RemoveAt(seq, i) == SubSeq(seq, 1, i - 1) \o SubSeq(seq, i + 1, Len(seq))

\* an effect that does not ask whose turn it is
AITurnEffect_anyTurn ==
    /\ effDeps # Deps
    /\ effDeps' = Deps
    /\ IF gameStarted /\ winner = NullWinner /\ isAI /\ ~isThinking
       THEN /\ isThinking' = TRUE
            /\ aiTasks' = Append(aiTasks, [pc |-> "delay", board |-> board,
                                           inputs |-> inputs, hand |-> players["P2"]])
       ELSE UNCHANGED <<isThinking, aiTasks>>
    /\ UNCHANGED <<commentary, comments>>
    /\ UNCHANGED <<gameStarted, isAI, board, inputs, players, turn, winner,
                   selectedCardIndex, last, odd>>

\* useEffect(..., [turn, isAI, gameStarted, winner]): runs after the render in
\* which a dependency changed, before any other event is handled
AITurnEffect ==
    /\ effDeps # Deps
    /\ effDeps' = Deps
    /\ IF gameStarted /\ winner = NullWinner /\ isAI /\ turn = "P2" /\ ~isThinking
       THEN /\ isThinking' = TRUE
            /\ aiTasks' = Append(aiTasks, [pc |-> "delay", board |-> board,
                                           inputs |-> inputs, hand |-> players["P2"]])
       ELSE UNCHANGED <<isThinking, aiTasks>>
    /\ UNCHANGED <<commentary, comments>>
    /\ UNCHANGED <<gameStarted, isAI, board, inputs, players, turn, winner,
                   selectedCardIndex, last, odd>>

\* await new Promise(r => setTimeout(r, 1500)) ends; getAIMove is called
AIDelayDone(i) ==
    /\ NoEffectPending
    /\ i \in 1..Len(aiTasks)
    /\ aiTasks[i].pc = "delay"
    /\ aiTasks' = [aiTasks EXCEPT ![i].pc = "fetch"]
    /\ UNCHANGED <<commentary, comments>>
    /\ UNCHANGED <<gameStarted, isAI, board, inputs, players, turn, winner,
                   selectedCardIndex, isThinking, effDeps, last, odd>>

\* getAIMove settles with response r; the rest of performAIMove runs: what it
\* does to the state of the App
AIOutcome(i, r) ==
    /\ NoEffectPending
    /\ i \in 1..Len(aiTasks)
    /\ aiTasks[i].pc = "fetch"
    /\ Possible(aiTasks[i], r)
    /\ \E cl \in {aiTasks[i]} :
       \E v \in {performAIMove(cl, getAIMove(cl, r))} :
           \E draws \in RandomHands(DrawCount(v.call, cl), MaxOdd - odd) :
              /\ Commit(executeMove(GameState, v.call, cl, draws))
              /\ odd' = odd + OddCount(draws)
    /\ aiTasks' = RemoveAt(aiTasks, i)
    /\ UNCHANGED <<gameStarted, isAI, inputs, effDeps>>

AIResolve(i, r) ==
    /\ AIOutcome(i, r)
    /\ \E cl \in {aiTasks[i]} :
       \E v \in {performAIMove(cl, getAIMove(cl, r))} :
           last' = Last("performAIMove", r.kind,
                        IF r.kind = "ok" THEN r.move.actionType ELSE "none",
                        v.branch, 1, DrawCount(v.call, cl))

Next ==
    \/ \E aiMode \in BOOLEAN : startGame(aiMode)
    \/ resetGame
    \/ \E index \in 0..(INITIAL_HAND_SIZE - 1) : handleCardSelect(index)
    \/ \E slotId \in Slots : handleSlotClick(slotId)
    \/ handleDiscardHand
    \/ AITurnEffect
    \/ \E i \in 1..Len(aiTasks) : AIDelayDone(i)
    \/ \E i \in 1..Len(aiTasks), r \in Responses : AIResolve(i, r)

\* the match; the answers to getCommentary(), which change nothing but the
\* text, stay in flight here and settle in SpecCommentary
Spec == Init /\ [][Next]_vars

(***************************************************************************)
(* geminiService: getCommentary, and the match with its answers            *)
(***************************************************************************)
\* what getCommentary() resolves with: the model's sentence, the placeholder
\* for an empty answer, the placeholder of its catch
CommentaryTexts == {"text", "interrupted", "recalculating"}

\* a .then that also ends the turn
getCommentaryDone_passesTurn(text) ==
    /\ NoEffectPending
    /\ comments > 0
    /\ text \in CommentaryTexts
    /\ commentary' = text
    /\ comments' \in {comments - 1} \cup (IF comments = MaxPending THEN {comments} ELSE {})
    /\ turn' = (IF turn = "P1" THEN "P2" ELSE "P1")
    /\ UNCHANGED <<gameStarted, isAI, board, inputs, players, winner,
                   selectedCardIndex, isThinking, aiTasks, effDeps, last, odd>>

\* a getCommentary() call settles: .then(text => setCommentary(text)); when
\* MaxPending or more are in flight, as many may remain
getCommentaryDone(text) ==
    /\ NoEffectPending
    /\ comments > 0
    /\ text \in CommentaryTexts
    /\ commentary' = text
    /\ comments' \in {comments - 1} \cup (IF comments = MaxPending THEN {comments} ELSE {})
    /\ UNCHANGED <<gameStarted, isAI, board, inputs, players, turn, winner,
                   selectedCardIndex, isThinking, aiTasks, effDeps, last, odd>>

\* the App before the start screen is left, when every getRandomGate() and
\* generateInputs() of the run yields its first result
InitCommentary ==
    /\ gameStarted = FALSE
    /\ isAI = FALSE
    /\ board = INITIAL_BOARD
    /\ inputs = <<>>
    /\ players \in createPlayers(0)
    /\ odd = MaxOdd
    /\ turn = "P1"
    /\ winner = NullWinner
    /\ selectedCardIndex = NullIdx
    /\ isThinking = FALSE
    /\ aiTasks = <<>>
    /\ effDeps = Deps
    /\ last = Last("init", "none", "none", "none", 0, 2 * INITIAL_HAND_SIZE)
    /\ commentary = "initialized"
    /\ comments = 0

NextCommentary ==
    \/ Next
    \/ \E text \in CommentaryTexts : getCommentaryDone(text)

SpecCommentary == InitCommentary /\ [][NextCommentary]_vars

(***************************************************************************)
(* evaluateBoard on its own: the boards and input vectors it is applied to *)
(***************************************************************************)
NumEvalInputs == 4   \* the input vectors tried: the first NumEvalInputs of EvalCodes

\* 27 is [1,1,0,1,1,0,0,0]: the leaves see the pairs 11, 01, 10, 00; the next
\* three codes turn it by two bits, so that every leaf sees every pair
EvalCodes == <<27, 108, 177, 198, 0, 255, 51, 85>>

EvalInputs ==
    {InputBits(EvalCodes[k]) :
        k \in 1..(IF NumEvalInputs < Len(EvalCodes) THEN NumEvalInputs
                                                   ELSE Len(EvalCodes))}

\* the values the board passed in may hold: one value everywhere, or 0 and 1
\* by turns
StaleValues ==
    {[n \in Slots |-> v] : v \in {0, 1, NullVal}}
    \cup {[n \in Slots |-> (n + d) % 2] : d \in {0, 1}}

EvalBoards ==
    {[n \in Slots |-> [gate |-> g[n], value |-> v[n]]] :
        g \in [Slots -> getRandomGate \cup {NullGate}], v \in StaleValues}

InitEval ==
    /\ board \in EvalBoards
    /\ inputs \in EvalInputs
    /\ gameStarted = TRUE /\ isAI = FALSE
    /\ players = [p \in PlayerId |-> [j \in 1..INITIAL_HAND_SIZE |-> DrawOrder[1]]]
    /\ odd = 0
    /\ turn = "P1" /\ winner = NullWinner
    /\ selectedCardIndex = NullIdx
    /\ isThinking = FALSE
    /\ aiTasks = <<>>
    /\ effDeps = Deps
    /\ last = Last("init", "none", "none", "none", 0, 0)
    /\ commentary = "started"
    /\ comments = 0

\* setBoard(evaluateBoard(board, inputs))
Evaluate ==
    /\ board' = evaluateBoard(board, inputs)
    /\ last' = Last("evaluateBoard", "none", "none", "none", 0, 0)
    /\ UNCHANGED <<commentary, comments>>
    /\ UNCHANGED <<gameStarted, isAI, inputs, players, turn, winner,
                   selectedCardIndex, isThinking, aiTasks, effDeps, odd>>

SpecEval == InitEval /\ [][Evaluate]_vars

(***************************************************************************)
(* evaluateBoard on boards of all five gate types                          *)
(***************************************************************************)
\* the input vectors of EvalInputs and [1,0,1,0,1,0,1,0]
TableInputs == EvalInputs \cup {InputBits(EvalCodes[Len(EvalCodes)])}

\* boards whose values are unset: any gate type or none on slots 0, 1 and 2,
\* one choice for the leaves 3 and 4 and one for the leaves 5 and 6
TableBoards ==
    {[n \in Slots |-> [gate  |-> IF n < 3 THEN g[n]
                                 ELSE IF n < 5 THEN g[3] ELSE g[4],
                       value |-> NullVal]] :
        g \in [0..4 -> GateType \cup {NullGate}]}

InitTable ==
    /\ board \in TableBoards
    /\ inputs \in TableInputs
    /\ gameStarted = TRUE /\ isAI = FALSE
    /\ players = [p \in PlayerId |-> [j \in 1..INITIAL_HAND_SIZE |-> DrawOrder[1]]]
    /\ odd = 0
    /\ turn = "P1" /\ winner = NullWinner
    /\ selectedCardIndex = NullIdx
    /\ isThinking = FALSE
    /\ aiTasks = <<>>
    /\ effDeps = Deps
    /\ last = Last("init", "none", "none", "none", 0, 0)
    /\ commentary = "started"
    /\ comments = 0

SpecTable == InitTable /\ [][Evaluate]_vars

\* the effect runs, the timer fires and the request settles
FairSpec ==
    /\ Spec
    /\ WF_vars(AITurnEffect)
    /\ WF_vars(\E i \in 1..Len(aiTasks) : AIDelayDone(i))
    /\ WF_vars(\E i \in 1..Len(aiTasks), r \in Responses : AIResolve(i, r))

TypeOK ==
    /\ gameStarted \in BOOLEAN /\ isAI \in BOOLEAN /\ isThinking \in BOOLEAN
    /\ turn \in PlayerId
    /\ winner \in PlayerId \cup {"DRAW", NullWinner}
    /\ selectedCardIndex \in {NullIdx} \cup 0..(INITIAL_HAND_SIZE - 1)
    /\ \A p \in PlayerId : players[p] \in [1..INITIAL_HAND_SIZE -> GateType]
    /\ odd \in 0..MaxOdd
    /\ commentary \in {"initialized", "started", "wins"} \cup CommentaryTexts
    /\ comments \in 0..MaxPending
    /\ \A n \in Slots : board[n].gate \in GateType \cup {NullGate}
                        /\ board[n].value \in {0, 1, NullVal}

(***************************************************************************)
(* The AI turn                                                             *)
(***************************************************************************)
\* it is the AI's turn to move
AIOnTurn == gameStarted /\ isAI /\ turn = "P2" /\ winner = NullWinner

\* the step is the end of a performAIMove
AIResolves == Len(aiTasks') < Len(aiTasks)

\* C1: whenever it is P2's turn in AI mode with no winner, a performAIMove is
\* pending or about to be started by the effect; whatever getAIMove answers, the
\* performAIMove ends having called executeMove exactly once, with isThinking
\* cleared and either the turn at P1 or the winner set; and it does end.
C1_AITurnAlwaysResolves ==
    /\ [](AIOnTurn /\ NoEffectPending => aiTasks # <<>>)
    /\ [][AIResolves => /\ last'.moves = 1
                        /\ ~isThinking'
                        /\ (turn' = "P1" \/ winner' # NullWinner)]_vars
    /\ (AIOnTurn ~> (~isThinking /\ (turn = "P1" \/ winner # NullWinner)))

\* an AI turn has ended with the turn passed to P1
C1_Witness ==
    /\ last.op = "performAIMove" /\ last.moves = 1
    /\ isAI /\ ~isThinking /\ turn = "P1" /\ winner = NullWinner

\* an AI turn has ended with the winner set
C1_WitnessWinner ==
    /\ last.op = "performAIMove" /\ last.moves = 1
    /\ isAI /\ ~isThinking /\ winner # NullWinner

(***************************************************************************)
(* The validation of the AI's proposal.  The board and the hand of a       *)
(* proposal are those of the closure cl of the performAIMove that asked    *)
(* for it: what getAIMove was given and what performAIMove validates       *)
(* against.                                                                *)
(***************************************************************************)
Gates(nodes) == [n \in Slots |-> nodes[n].gate]

\* the step is the end of the performAIMove i, to which getAIMove answered r
\* (AIResolve(i, r); what the step recorded is compared first)
Answers(i, r) ==
    /\ last'.kind = r.kind
    /\ last'.tag = (IF r.kind = "ok" THEN r.move.actionType ELSE "none")
    /\ last'.branch = performAIMove(aiTasks[i], getAIMove(aiTasks[i], r)).branch
    /\ AIResolve(i, r)

\* getAIMove answered with a proposal of this tag
Proposed(r, tag) == r.kind = "ok" /\ r.move.actionType = tag

\* the step was one executeMove('DISCARD', 'P2'): no gate is placed, three
\* cards are drawn for P2, the turn passes
Discarded ==
    /\ board' = board
    /\ last'.moves = 1 /\ last'.drawn = INITIAL_HAND_SIZE
    /\ players'["P2"] \in [1..INITIAL_HAND_SIZE -> GateType]
    /\ players'["P1"] = players["P1"]
    /\ turn' = "P1" /\ winner' = winner

\* the step set gate g on slot n of the board cl.board and no other gate
PlacedAt(cl, n, g) == Gates(board') = [Gates(cl.board) EXCEPT ![n] = g]

\* P2 holds the gate g in hand; the 0-based index of its first occurrence
Holds(hand, g) == \E j \in 1..Len(hand) : hand[j] = g

FirstOccurrence(hand, g) == Lowest({j \in 1..Len(hand) : hand[j] = g}) - 1

\* the hand without the card at the 0-based index idx
Without(hand, idx) ==
    [j \in 1..(Len(hand) - 1) |-> IF j <= idx THEN hand[j] ELSE hand[j + 1]]

\* the step removed the card at idx from the hand cl.hand and drew one card
Removed(cl, idx) ==
    /\ last'.drawn = 1
    /\ \E g \in GateType : players'["P2"] = Without(cl.hand, idx) \o <<g>>

\* the step drew no card and left the hands as they were
HandsKept == last'.drawn = 0 /\ players' = players

\* the placement on slot n fills the last empty slot of cl.board
Deciding(cl, n) == EmptySlots(cl.board) = {n}

\* C2: every performAIMove that ends is exactly one legal action: one slot that
\* was empty receives a gate that was in P2's hand, or P2's whole hand is
\* replaced; the turn never passes with neither.
C2_OneLegalAction ==
    [][AIResolves =>
        \A i \in 1..Len(aiTasks), r \in Responses :
            Answers(i, r) =>
                \/ \E n \in EmptySlots(aiTasks[i].board),
                      j \in 1..Len(aiTasks[i].hand) :
                        PlacedAt(aiTasks[i], n, aiTasks[i].hand[j])
                \/ Discarded]_vars

\* C3 as stated: a PLACE proposal whose slotId is absent or out of range is
\* resolved to a placement on the lowest empty slot.
C3_PlacesOnLowestEmpty ==
    [][AIResolves =>
        \A i \in 1..Len(aiTasks), r \in Responses :
            (/\ Proposed(r, "PLACE")
             /\ ~r.move.hasSlot \/ r.move.slotId \notin Slots
             /\ EmptySlots(aiTasks[i].board) # {}
             /\ Answers(i, r))
            => \E g \in GateType :
                  PlacedAt(aiTasks[i], Lowest(EmptySlots(aiTasks[i].board)), g)]_vars

\* C3 amended: a PLACE proposal whose slotId is absent or out of range is
\* resolved to a DISCARD: no gate is placed and P2's hand is replaced.
C3_BadSlotDiscards ==
    [][AIResolves =>
        \A i \in 1..Len(aiTasks), r \in Responses :
            (/\ Proposed(r, "PLACE")
             /\ ~r.move.hasSlot \/ r.move.slotId \notin Slots
             /\ Answers(i, r))
            => Discarded]_vars

\* a proposal with an out-of-range slotId was resolved on a board with empty slots
C3_Witness ==
    /\ last.op = "performAIMove" /\ last.tag = "PLACE"
    /\ last.branch = "noSuchSlot"
    /\ EmptySlots(board) # {}

\* C4: a PLACE proposal on a slot that holds a gate, while the board has an
\* empty slot, is resolved to a placement on the lowest empty slot, the other
\* slots unchanged.
C4_FilledSlotPlacesOnLowestEmpty ==
    [][AIResolves =>
        \A i \in 1..Len(aiTasks), r \in Responses :
            (/\ Proposed(r, "PLACE")
             /\ r.move.hasSlot /\ r.move.slotId \in Slots
             /\ r.move.gateType # NullGate
             /\ aiTasks[i].board[r.move.slotId].gate # NullGate
             /\ EmptySlots(aiTasks[i].board) # {}
             /\ Answers(i, r))
            => \E g \in GateType :
                  PlacedAt(aiTasks[i], Lowest(EmptySlots(aiTasks[i].board)), g)]_vars

\* C5 as stated: a PLACE proposal on an empty slot that names a gate P2 does not
\* hold places hand[0] on that slot and removes the card at index 0.
C5_FirstCardPlacedAndRemoved ==
    [][AIResolves =>
        \A i \in 1..Len(aiTasks), r \in Responses :
            (/\ Proposed(r, "PLACE")
             /\ r.move.hasSlot /\ r.move.slotId \in Slots
             /\ r.move.gateType # NullGate
             /\ aiTasks[i].board[r.move.slotId].gate = NullGate
             /\ ~Holds(aiTasks[i].hand, r.move.gateType)
             /\ Answers(i, r))
            => /\ PlacedAt(aiTasks[i], r.move.slotId, aiTasks[i].hand[1])
               /\ Removed(aiTasks[i], 0)]_vars

\* C5 amended: such a proposal places hand[0] on that slot; the card at index 0
\* is removed and one card drawn unless the placement fills the last empty
\* slot, when the hands stay as they were.
C5_FirstCardPlaced ==
    [][AIResolves =>
        \A i \in 1..Len(aiTasks), r \in Responses :
            (/\ Proposed(r, "PLACE")
             /\ r.move.hasSlot /\ r.move.slotId \in Slots
             /\ r.move.gateType # NullGate
             /\ aiTasks[i].board[r.move.slotId].gate = NullGate
             /\ ~Holds(aiTasks[i].hand, r.move.gateType)
             /\ Answers(i, r))
            => /\ PlacedAt(aiTasks[i], r.move.slotId, aiTasks[i].hand[1])
               /\ last'.moves = 1
               /\ IF Deciding(aiTasks[i], r.move.slotId)
                  THEN HandsKept
                  ELSE Removed(aiTasks[i], 0)]_vars

\* a gate P2 did not hold was proposed, hand[0] placed and one card drawn
C5_Witness ==
    /\ last.op = "performAIMove" /\ last.tag = "PLACE"
    /\ last.branch = "placeFirstCard" /\ last.drawn = 1
    /\ winner = NullWinner

\* C6 as stated: a PLACE proposal on an empty slot that gives no gateType
\* places hand[0] on that slot; it is not turned into a DISCARD.
C6_MissingGatePlacesFirstCard ==
    [][AIResolves =>
        \A i \in 1..Len(aiTasks), r \in Responses :
            (/\ Proposed(r, "PLACE")
             /\ r.move.hasSlot /\ r.move.slotId \in Slots
             /\ r.move.gateType = NullGate
             /\ aiTasks[i].board[r.move.slotId].gate = NullGate
             /\ Answers(i, r))
            => PlacedAt(aiTasks[i], r.move.slotId, aiTasks[i].hand[1])]_vars

\* C6 amended: a PLACE proposal on an empty slot that gives no gateType is
\* resolved to a DISCARD: no gate is placed and P2's hand is replaced.
C6_MissingGateDiscards ==
    [][AIResolves =>
        \A i \in 1..Len(aiTasks), r \in Responses :
            (/\ Proposed(r, "PLACE")
             /\ r.move.hasSlot /\ r.move.slotId \in Slots
             /\ r.move.gateType = NullGate
             /\ aiTasks[i].board[r.move.slotId].gate = NullGate
             /\ Answers(i, r))
            => Discarded]_vars

\* a proposal without gateType on the empty slot 3 was resolved
C6_Witness ==
    /\ last.op = "performAIMove" /\ last.tag = "PLACE"
    /\ last.branch = "missingGate"
    /\ board[3].gate = NullGate

\* C7 as stated: a proposal whose tag is neither PLACE nor DISCARD is resolved
\* to a DISCARD, whatever its other fields.
C7_UnknownTagDiscards ==
    [][AIResolves =>
        \A i \in 1..Len(aiTasks), r \in Responses :
            (Proposed(r, "OTHER") /\ Answers(i, r)) => Discarded]_vars

\* the proposal r with its tag read as PLACE
AsPlace(r) == [r EXCEPT !.move.actionType = "PLACE"]

\* C7 amended: a proposal whose tag is neither PLACE nor DISCARD is handled as
\* the PLACE proposal with the same fields is.
C7_UnknownTagHandledAsPlace ==
    [][AIResolves =>
        \A i \in 1..Len(aiTasks), r \in Responses :
            (Proposed(r, "OTHER") /\ Answers(i, r))
            => /\ AIOutcome(i, AsPlace(r))
               /\ last'.branch = performAIMove(aiTasks[i],
                                    getAIMove(aiTasks[i], AsPlace(r))).branch
               /\ last'.moves = 1]_vars

\* a proposal with an unknown tag was resolved and its gate placed on slot 3
C7_Witness ==
    /\ last.op = "performAIMove" /\ last.tag = "OTHER"
    /\ last.branch = "place"
    /\ board[3].gate # NullGate

\* C8 as stated: when the fetch of the proposal fails the turn is resolved to a
\* DISCARD and no gate is placed.
C8_FailedFetchDiscards ==
    [][AIResolves =>
        \A i \in 1..Len(aiTasks), r \in Responses :
            (r.kind = "fail" /\ Answers(i, r)) => Discarded]_vars

\* C8 amended: when the fetch fails getAIMove answers for itself: on a board
\* with an empty slot a DISCARD (one time in ten) or else the placement of
\* hand[0] on an empty slot it picks at random; only on a board without an
\* empty slot does it throw, and the turn is resolved to a DISCARD.
C8_FailedFetchFallsBack ==
    [][AIResolves =>
        \A i \in 1..Len(aiTasks), r \in Responses :
            (r.kind = "fail" /\ Answers(i, r))
            => /\ last'.moves = 1
               /\ IF EmptySlots(aiTasks[i].board) = {} \/ r.pick = -1
                  THEN Discarded
                  ELSE /\ r.pick \in EmptySlots(aiTasks[i].board)
                       /\ PlacedAt(aiTasks[i], r.pick, aiTasks[i].hand[1])
                       /\ IF Deciding(aiTasks[i], r.pick)
                          THEN HandsKept
                          ELSE Removed(aiTasks[i], 0)]_vars

\* after a failed fetch a gate was placed
C8_Witness ==
    /\ last.op = "performAIMove" /\ last.kind = "fail"
    /\ last.branch = "place" /\ last.drawn = 1
    /\ EmptySlots(board) # Slots

\* C9 as stated: a PLACE proposal on an empty slot with a gate P2 holds is
\* applied unchanged: that gate is set on that slot and no other, and the first
\* occurrence of the gate is the card removed from P2's hand.
C9_WellFormedPlaceApplied ==
    [][AIResolves =>
        \A i \in 1..Len(aiTasks), r \in Responses :
            (/\ Proposed(r, "PLACE")
             /\ r.move.hasSlot /\ r.move.slotId \in Slots
             /\ r.move.gateType # NullGate
             /\ aiTasks[i].board[r.move.slotId].gate = NullGate
             /\ Holds(aiTasks[i].hand, r.move.gateType)
             /\ Answers(i, r))
            => /\ PlacedAt(aiTasks[i], r.move.slotId, r.move.gateType)
               /\ Removed(aiTasks[i],
                          FirstOccurrence(aiTasks[i].hand, r.move.gateType))]_vars

\* C9 amended: such a proposal sets that gate on that slot and no other; the
\* first occurrence of the gate is removed from P2's hand and one card drawn
\* unless the placement fills the last empty slot, when the hands stay as they
\* were.
C9_WellFormedPlaceSetsGate ==
    [][AIResolves =>
        \A i \in 1..Len(aiTasks), r \in Responses :
            (/\ Proposed(r, "PLACE")
             /\ r.move.hasSlot /\ r.move.slotId \in Slots
             /\ r.move.gateType # NullGate
             /\ aiTasks[i].board[r.move.slotId].gate = NullGate
             /\ Holds(aiTasks[i].hand, r.move.gateType)
             /\ Answers(i, r))
            => /\ PlacedAt(aiTasks[i], r.move.slotId, r.move.gateType)
               /\ last'.moves = 1
               /\ IF Deciding(aiTasks[i], r.move.slotId)
                  THEN HandsKept
                  ELSE Removed(aiTasks[i],
                               FirstOccurrence(aiTasks[i].hand, r.move.gateType))]_vars

\* a gate P2 held twice was proposed and placed: P2 had NAND, NOR, NAND, the
\* NOR is now the first card
C9_Witness ==
    /\ last.op = "performAIMove" /\ last.tag = "PLACE"
    /\ last.branch = "place" /\ last.drawn = 1
    /\ players["P2"][1] = "NOR"
    /\ \E n \in Slots : board[n].gate = "NAND"
    /\ \A n \in Slots : board[n].gate # "NOR"

(***************************************************************************)
(* The evaluator                                                           *)
(***************************************************************************)
\* the board with the values it holds wiped
Cleared(nodes) == [n \in Slots |-> [gate |-> nodes[n].gate, value |-> NullVal]]

Values(nodes) == [n \in Slots |-> nodes[n].value]

\* C10: for every board and input vector, evaluating the result of an
\* evaluation again yields the same values on all 7 slots, and the values the
\* board passed in holds make no difference to the result; a board that
\* evaluateBoard returned is what evaluating it yields.
C10_EvaluateIdempotent ==
    /\ Values(evaluateBoard(evaluateBoard(board, inputs), inputs))
           = Values(evaluateBoard(board, inputs))
    /\ Values(evaluateBoard(board, inputs))
           = Values(evaluateBoard(Cleared(board), inputs))
    /\ Gates(evaluateBoard(board, inputs)) = Gates(board)
    /\ last.op = "evaluateBoard" => evaluateBoard(board, inputs) = board

\* a full board of more than one sort of gate was evaluated and its root is 1
C10_Witness ==
    /\ last.op = "evaluateBoard"
    /\ EmptySlots(board) = {}
    /\ board[0].value = 1
    /\ \E n \in Slots : board[n].gate # board[0].gate

\* the slots above slot n, up to the root
RECURSIVE Ancestors(_)
Ancestors(n) ==
    IF n = 0 THEN {} ELSE {(n - 1) \div 2} \cup Ancestors((n - 1) \div 2)

\* C11: after evaluateBoard, the value of every slot i is unset exactly when
\* slot i has no gate or (for i < 3) the value of slot 2i+1 or of slot 2i+2 is
\* unset; so a slot without a gate leaves every slot above it unset, and a
\* leaf slot with a gate always has a value.
C11_UnsetExactlyWhenIncomplete ==
    LET e == evaluateBoard(board, inputs)
    IN  /\ \A i \in Slots :
               e[i].value = NullVal
                   <=> \/ e[i].gate = NullGate
                       \/ i < 3 /\ (\/ e[2 * i + 1].value = NullVal
                                    \/ e[2 * i + 2].value = NullVal)
        /\ \A n \in Slots :
               e[n].gate = NullGate
                   => \A a \in Ancestors(n) : e[a].value = NullVal
        /\ \A i \in 3..(BOARD_SIZE - 1) :
               e[i].gate # NullGate => e[i].value \in {0, 1}
        /\ last.op = "evaluateBoard" => Values(e) = Values(board)

\* an evaluated board: slot 3 has no gate, so slots 1 and 0, which have gates,
\* are unset, while the leaf 4 and the slot 2 above two leaves with gates have
\* values
C11_Witness ==
    /\ last.op = "evaluateBoard"
    /\ board[3].gate = NullGate
    /\ board[1].gate # NullGate /\ board[1].value = NullVal
    /\ board[0].gate # NullGate /\ board[0].value = NullVal
    /\ board[4].gate # NullGate /\ board[4].value # NullVal
    /\ board[2].gate # NullGate /\ board[2].value # NullVal

\* C12: for every board whose 7 slots all hold a gate and every input vector,
\* evaluateBoard gives the root the value 0 or 1, never an unset one, so
\* checkWinCondition never answers DRAW on an evaluated board and the winner
\* is never DRAW in any reachable state of the game.
C12_NeverDraw ==
    /\ EmptySlots(board) = {}
           => evaluateBoard(board, inputs)[0].value \in {0, 1}
    /\ checkWinCondition(evaluateBoard(board, inputs)) # "DRAW"
    /\ winner # "DRAW"

\* a placement filled the seventh slot of a match: the root has a value and a
\* player has won
C12_Witness ==
    /\ last.op \in {"handleSlotClick", "performAIMove"}
    /\ EmptySlots(board) = {}
    /\ board[0].value \in {0, 1}
    /\ winner \in PlayerId

\* the reference truth tables, for the operand pairs 00, 01, 10, 11
TruthTable ==
    [g \in GateType |->
        CASE g = "AND"  -> <<0, 0, 0, 1>>
          [] g = "OR"   -> <<0, 1, 1, 1>>
          [] g = "XOR"  -> <<0, 1, 1, 0>>
          [] g = "NAND" -> <<1, 1, 1, 0>>
          [] g = "NOR"  -> <<1, 0, 0, 0>>]

\* OR on the four leaves, AND on slot 1, NAND on slot 2, XOR on the root
OrLeavesBoard ==
    [n \in Slots |-> IF n >= 3 THEN "OR"
                     ELSE IF n = 1 THEN "AND"
                     ELSE IF n = 2 THEN "NAND" ELSE "XOR"]

\* the values of that board under [1,0,1,0,1,0,1,0]: root 1, slot 1 is 1,
\* slot 2 is 0, every leaf 1
OrLeavesValues == [n \in Slots |-> IF n = 2 THEN 0 ELSE 1]

\* C13: after evaluateBoard, every slot that holds a gate and whose two
\* operands are set has the value the reference truth table of its gate gives
\* for them (AND, OR, XOR, NAND, NOR); the operands of a leaf i are the input
\* bits (i-3)*2 and (i-3)*2+1, those of an inner slot i the values of slots
\* 2i+1 and 2i+2. OR on slots 3..6 under [1,0,1,0,1,0,1,0] with AND on slot 1,
\* NAND on slot 2 and XOR on slot 0 gives 1,1,1,1 / 1 / 0 / root 1, winner P1.
C13_ValuesFollowTruthTables ==
    LET e    == evaluateBoard(board, inputs)
        A(i) == IF i >= 3 THEN inputs[(i - 3) * 2 + 1] ELSE e[2 * i + 1].value
        B(i) == IF i >= 3 THEN inputs[(i - 3) * 2 + 2] ELSE e[2 * i + 2].value
    IN  /\ \A i \in Slots :
               (e[i].gate # NullGate /\ A(i) # NullVal /\ B(i) # NullVal)
                   => e[i].value = TruthTable[e[i].gate][2 * A(i) + B(i) + 1]
        /\ (Gates(board) = OrLeavesBoard /\ inputs = InputBits(85))
               => Values(e) = OrLeavesValues /\ checkWinCondition(e) = "P1"

\* the board of the example was evaluated under [1,0,1,0,1,0,1,0]
C13_Witness ==
    /\ last.op = "evaluateBoard"
    /\ Gates(board) = OrLeavesBoard
    /\ inputs = InputBits(85)
    /\ Values(board) = OrLeavesValues

\* C14: checkWinCondition answers unset whenever at least one slot has no
\* gate; it answers P1 exactly when all 7 slots hold a gate and the root's
\* value is 1, and P2 exactly when all 7 slots hold a gate and the root's
\* value is 0.
C14_WinnerFromFullBoardAndRoot ==
    LET w    == checkWinCondition(board)
        full == \A n \in Slots : board[n].gate # NullGate
    IN  /\ ~full => w = NullWinner
        /\ w = "P1" <=> (full /\ board[0].value = 1)
        /\ w = "P2" <=> (full /\ board[0].value = 0)

\* an evaluated full board whose root is 0: the check answers P2
C14_Witness ==
    /\ last.op = "evaluateBoard"
    /\ EmptySlots(board) = {}
    /\ board[0].value = 0
    /\ checkWinCondition(board) = "P2"

(***************************************************************************)
(* The moves.  The hand a placement takes its card from is the hand of the *)
(* closure executeMove runs in: the current player's hand for a click, the *)
(* hand performAIMove was started with for the AI.                         *)
(***************************************************************************)
\* how many cards of the hand are gates of type k
Count(hand, k) == Cardinality({j \in 1..Len(hand) : hand[j] = k})

\* hand2 is hand with one instance of g taken out and one card f put in
Replaced(hand, hand2, g) ==
    /\ Len(hand2) = INITIAL_HAND_SIZE
    /\ \E f \in GateType :
          \A k \in GateType :
              Count(hand2, k) = Count(hand, k) - (IF k = g THEN 1 ELSE 0)
                                               + (IF k = f THEN 1 ELSE 0)

\* the step is a click that placed the selected card of the current player
HumanPlaces == last'.op = "handleSlotClick" /\ board' # board

\* the step is the end of the performAIMove i that set a gate on a slot of
\* its board
AIPlaces(i) ==
    /\ AIResolves /\ aiTasks' = RemoveAt(aiTasks, i)
    /\ last'.branch \in {"place", "placeFirstCard"}

\* the gate the performAIMove i set
AIPlaced(i) ==
    LET n == CHOOSE n \in Slots : board'[n].gate # aiTasks[i].board[n].gate
    IN  board'[n].gate

\* C15 as stated: after every placement, the one that fills the last slot and
\* decides the winner included, the acting player's hand has exactly 3 cards,
\* and exactly one instance of the placed gate was removed from it and
\* replaced by one fresh card.
C15_HandReplenishedAlways ==
    [][/\ HumanPlaces =>
            /\ last'.drawn = 1
            /\ Replaced(players[turn], players'[turn],
                        players[turn][selectedCardIndex + 1])
       /\ \A i \in 1..Len(aiTasks) :
            AIPlaces(i) =>
                /\ last'.drawn = 1
                /\ Replaced(aiTasks[i].hand, players'["P2"], AIPlaced(i))]_vars

\* C15 amended: after a placement that leaves a slot empty the acting
\* player's hand has exactly 3 cards, one instance of the placed gate removed
\* and replaced by one fresh card; the placement that fills the last slot
\* draws no card and leaves both hands as they were, the placed card included.
C15_HandReplenishedUnlessDeciding ==
    [][/\ HumanPlaces =>
            /\ Len(players'[turn]) = INITIAL_HAND_SIZE
            /\ IF EmptySlots(board') = {}
               THEN HandsKept
               ELSE /\ last'.drawn = 1
                    /\ Replaced(players[turn], players'[turn],
                                players[turn][selectedCardIndex + 1])
                    /\ \A p \in PlayerId \ {turn} : players'[p] = players[p]
       /\ \A i \in 1..Len(aiTasks) :
            AIPlaces(i) =>
                /\ Len(players'["P2"]) = INITIAL_HAND_SIZE
                /\ IF EmptySlots(board') = {}
                   THEN HandsKept
                   ELSE /\ last'.drawn = 1
                        /\ Replaced(aiTasks[i].hand, players'["P2"], AIPlaced(i))
                        /\ players'["P1"] = players["P1"]]_vars

\* a click filled the seventh slot: the winner is set, no card was drawn and
\* the player who placed still holds three cards
C15_Witness ==
    /\ last.op = "handleSlotClick" /\ last.drawn = 0
    /\ EmptySlots(board) = {}
    /\ winner \in PlayerId
    /\ Len(players[turn]) = INITIAL_HAND_SIZE

\* the step is a click on DISCARD by the player whose turn it is
HumanDiscards == last'.op = "handleDiscardHand" /\ turn' # turn

\* the step is the end of a performAIMove that called
\* executeMove('DISCARD', 'P2')
AIDiscards ==
    /\ AIResolves
    /\ last'.op = "performAIMove" /\ last'.drawn = INITIAL_HAND_SIZE

\* what a discard by the player p leaves: the board as it was, gates and
\* values, no winner, a hand of exactly 3 gates for p, the turn with the
\* other player
DiscardFrame(p) ==
    /\ board' = board
    /\ winner = NullWinner /\ winner' = NullWinner
    /\ players'[p] \in [1..INITIAL_HAND_SIZE -> GateType]
    /\ last'.moves = 1 /\ last'.drawn = INITIAL_HAND_SIZE
    /\ turn' \in PlayerId \ {p}

\* C16: discardHand leaves the gate and the value of every slot unchanged,
\* leaves the winner unset, replaces the acting player's hand by a hand of
\* exactly 3 gates and passes the turn to the other player.
C16_DiscardFrame ==
    [][/\ HumanDiscards => DiscardFrame(turn)
       /\ AIDiscards => DiscardFrame("P2")
       /\ (last'.op = "handleDiscardHand" /\ last' # last) => HumanDiscards]_vars

\* the second player discarded on a board that holds a gate: the turn is back
\* with P1 and nobody has won
C16_Witness ==
    /\ last.op = "handleDiscardHand"
    /\ turn = "P1" /\ winner = NullWinner
    /\ EmptySlots(board) # Slots
    /\ Len(players["P2"]) = INITIAL_HAND_SIZE

\* the step starts a match anew: startGame, which the Reset and PLAY AGAIN
\* buttons call
Restarts ==
    /\ last'.op \in {"startGame", "resetGame"}
    /\ board' = INITIAL_BOARD
    /\ turn' = "P1" /\ winner' = NullWinner

\* C17: once the winner is set the match is terminal: no card selection,
\* placement, discard or AI move changes the board, either hand, the current
\* player or the winner; only startGame, which starts the match anew, does.
C17_TerminalOnceWon ==
    [][winner # NullWinner =>
          \/ UNCHANGED <<board, players, turn, winner>>
          \/ Restarts]_vars

\* the AI has won, so the turn is still P2's; the effect has run on the new
\* winner and has started no move
C17_Witness ==
    /\ winner \in PlayerId
    /\ isAI /\ turn = "P2"
    /\ last.op = "performAIMove"
    /\ NoEffectPending
    /\ aiTasks = <<>> /\ ~isThinking

\* C18: in every reachable state the winner is set exactly when all 7 slots
\* hold a gate, so the placement that fills the last slot sets the winner in
\* the same action; the winner is P1 if the root's value is 1 and P2 if it
\* is 0.
C18_WinnerIffBoardFull ==
    /\ winner # NullWinner <=> \A n \in Slots : board[n].gate # NullGate
    /\ winner = "P1" <=> (EmptySlots(board) = {} /\ board[0].value = 1)
    /\ winner = "P2" <=> (EmptySlots(board) = {} /\ board[0].value = 0)

\* the AI's placement filled the seventh slot with the root at 1: P1 has won
\* on P2's move
C18_Witness ==
    /\ last.op = "performAIMove" /\ last.branch = "place"
    /\ EmptySlots(board) = {}
    /\ board[0].value = 1
    /\ winner = "P1"

\* C19: startGame, from whatever state it is called in, yields 8 input bits,
\* 7 slots without gate and without value, a hand of exactly 3 gates for each
\* player, P1 as the current player and no winner.
C19_StartGameInitializes ==
    [][last'.op \in {"startGame", "resetGame"} =>
          /\ gameStarted'
          /\ inputs' \in [1..INITIAL_INPUTS_COUNT -> {0, 1}]
          /\ DOMAIN board' = Slots
          /\ \A n \in Slots : board'[n].gate = NullGate /\ board'[n].value = NullVal
          /\ \A p \in PlayerId : players'[p] \in [1..INITIAL_HAND_SIZE -> GateType]
          /\ last'.drawn = 2 * INITIAL_HAND_SIZE
          /\ turn' = "P1"
          /\ winner' = NullWinner
          /\ selectedCardIndex' = NullIdx]_vars

\* the match was started anew while it was P2's turn with gates on the board
\* and the AI's move pending: the board is empty, the turn is P1's
C19_Witness ==
    /\ last.op = "resetGame"
    /\ aiTasks # <<>>
    /\ \E n \in Slots : aiTasks[1].board[n].gate # NullGate
    /\ board = INITIAL_BOARD
    /\ turn = "P1" /\ winner = NullWinner

\* a precondition of the placement is violated where executeMove is called
\* with the PLACE call in the closure cl: the winner is set, the slot is none
\* of 0..6, the slot holds a gate, or the gate is not in the acting player's
\* hand
Violated(call, cl) ==
    \/ winner # NullWinner
    \/ ~(call.slotId.isNum /\ call.slotId.num \in Slots)
    \/ cl.board[call.slotId.num].gate # NullGate
    \/ ~Holds(cl.hand, call.gate)

\* C20: a placement invoked with a violated precondition (winner set, slotId
\* outside 0..6, slot already holding a gate, gate not in the acting player's
\* hand) fails and leaves the board, the hands, the current player and the
\* winner unchanged; the operation that applies a placement never repairs or
\* overwrites.
C20_InvalidPlacementChangesNothing ==
    [][AIResolves =>
        \A i \in 1..Len(aiTasks), r \in Responses :
            Answers(i, r) =>
                \E call \in {performAIMove(aiTasks[i],
                                           getAIMove(aiTasks[i], r)).call} :
                    (IsPlace(call) /\ Violated(call, aiTasks[i]))
                        => UNCHANGED <<board, players, turn, winner>>]_vars

(***************************************************************************)
(* The turn                                                                *)
(***************************************************************************)
\* the step is a click on DISCARD that was applied
HumanDiscarded ==
    /\ last'.op = "handleDiscardHand"
    /\ UNCHANGED <<effDeps, aiTasks, commentary>>
    /\ comments' >= comments

Other(p) == IF p = "P1" THEN "P2" ELSE "P1"

\* after an action of the player p: one executeMove ran; if it decided the
\* winner the turn is where it was, if not the turn is the other player's
TurnAfter(p) ==
    /\ last'.moves = 1
    /\ IF winner' # NullWinner
       THEN turn' = turn
       ELSE turn' = Other(p)

\* C21: after every applied action that does not decide the winner (a
\* placement that is not the last, or a discard) the current player is the
\* other player than the one who acted; after the placement that decides the
\* winner the current player is unchanged; an applied action runs executeMove
\* once, so it changes the current player at most once.
C21_TurnPassesUnlessDecided ==
    [][/\ (HumanPlaces \/ HumanDiscarded) => TurnAfter(turn)
       /\ AIResolves => TurnAfter("P2")
       /\ turn' # turn => (HumanPlaces \/ HumanDiscarded \/ AIResolves
                           \/ last'.op \in {"startGame", "resetGame"})]_vars

\* the second player of a two-player match filled the seventh slot: the
\* winner is set and the turn is still P2's
C21_Witness ==
    /\ ~isAI
    /\ last.op = "handleSlotClick" /\ last.moves = 1
    /\ winner \in PlayerId
    /\ turn = "P2"

(***************************************************************************)
(* The match as a whole                                                    *)
(***************************************************************************)
\* C22: in every reachable state of a match the values of the board are never
\* stale: the value every slot holds is the value evaluateBoard computes from
\* the gates the board holds now and the input vector of the match.
C22_ValuesNeverStale ==
    gameStarted => Values(board) = Values(evaluateBoard(board, inputs))

\* C23: at most one action is applied at a time: while isThinking is set,
\* from the start of an AI turn until its executeMove has run, every card
\* selection, slot click and discard of a human is rejected: the board, the
\* hands, the current player, the winner (and the selection) change only by
\* the end of the AI's move or by a new start of the match.
C23_ThinkingBlocksHumans ==
    [][isThinking =>
          /\ last' # last =>
                 last'.op \notin {"handleCardSelect", "handleSlotClick",
                                  "handleDiscardHand"}
          /\ \/ UNCHANGED <<board, players, turn, winner, selectedCardIndex>>
             \/ AIResolves
             \/ Restarts]_vars

\* the match was started anew while the AI's move was pending: it is P1's
\* turn, isThinking is still set, and the request has been sent
C23_Witness ==
    /\ isThinking
    /\ turn = "P1" /\ winner = NullWinner
    /\ last.op = "resetGame"
    /\ Len(aiTasks) = 1 /\ aiTasks[1].pc = "fetch"

(***************************************************************************)
(* The commentary                                                          *)
(***************************************************************************)
\* everything but the commentary and what bounds the exploration
GameVars ==
    <<gameStarted, isAI, board, inputs, players, turn, winner,
      selectedCardIndex, isThinking, aiTasks, effDeps>>

\* the step is a getCommentary() call that settles
CommentarySettles ==
    \/ comments' < comments
    \/ commentary' \in CommentaryTexts /\ commentary' # commentary

\* the step is an executeMove that decides no winner
MovesOn ==
    /\ HumanPlaces \/ HumanDiscarded \/ AIResolves
    /\ winner' = NullWinner

\* a human is to move and nothing holds the handlers back
HumanToMove ==
    /\ gameStarted /\ winner = NullWinner /\ ~isThinking
    /\ ~(isAI /\ turn = "P2")
    /\ NoEffectPending

\* C24: the commentary fetch never blocks or alters the match: the move that
\* asks for it passes the turn and clears isThinking in the same step, with
\* the request still in flight; whoever is next can act while requests are in
\* flight; and when a request settles, at whatever later point and with a
\* sentence or a placeholder, only the commentary text changes: board,
\* inputs, hands, current player and winner are unchanged.
C24_CommentaryNeverBlocks ==
    [][/\ MovesOn => /\ ~isThinking'
                     /\ comments' > 0
                     /\ commentary' = commentary
       /\ (HumanToMove /\ comments > 0) => ENABLED handleDiscardHand
       /\ (comments > 0 /\ NoEffectPending /\ aiTasks # <<>>) =>
              ENABLED (\E i \in 1..Len(aiTasks) :
                          AIDelayDone(i) \/ \E r \in Responses : AIResolve(i, r))
       /\ CommentarySettles => UNCHANGED GameVars]_vars

\* a match was played to its end without any commentary settling; then one
\* settled and replaced the text that names the winner
C24_Witness ==
    /\ winner \in PlayerId
    /\ EmptySlots(board) = {}
    /\ commentary \in CommentaryTexts

\* the match was started anew and nothing has been applied since; a
\* performAIMove of the match before is still pending
PendingAcrossRestart ==
    /\ last.op \in {"startGame", "resetGame"}
    /\ aiTasks # <<>>

\* C25: a match restarted while an AI move is pending is not affected by that
\* move: the board stays empty, the hands stay as dealt and the turn stays
\* P1's until P1 applies an action; a proposal computed from the board,
\* inputs and hand of the match before is never applied to the new match.
C25_RestartDropsPendingMove ==
    [][(PendingAcrossRestart /\ AIResolves)
          => /\ board' = INITIAL_BOARD
             /\ UNCHANGED <<board, inputs, players, turn, winner>>]_vars

(***************************************************************************)
(* The AI's moves in flight                                                *)
(***************************************************************************)
\* C26: at most one AI move is in flight at any time, and an AI move is
\* started only when the game is started in AI mode, no winner is set and
\* the current player is P2, whatever the interleaving of human actions,
\* restarts and ends of AI moves.
C26_OneAIMoveInFlight ==
    [][/\ Len(aiTasks) <= 1 /\ Len(aiTasks') <= 1
       /\ Len(aiTasks') > Len(aiTasks) =>
              /\ gameStarted /\ isAI
              /\ winner = NullWinner
              /\ turn = "P2"
              /\ aiTasks = <<>>]_vars

\* P1 has placed a gate; the one AI move in flight was started on the board
\* and the inputs as they are, and its request has been sent
C26_Witness ==
    /\ isAI /\ turn = "P2" /\ isThinking
    /\ Len(aiTasks) = 1
    /\ aiTasks[1].pc = "fetch"
    /\ aiTasks[1].board = board
    /\ aiTasks[1].inputs = inputs
    /\ EmptySlots(board) # Slots
    /\ last.op = "handleSlotClick"

\* the slots that hold a gate
Occupied(nodes) == Slots \ EmptySlots(nodes)

\* C27: within a match a placed gate is permanent: once a slot holds a gate
\* no later action of the match (a human's placement, the AI's placement with
\* or without repair, a discard) removes or changes it, and each applied
\* action raises the number of occupied slots by at most one.
C27_GatesPermanent ==
    [][~Restarts =>
          /\ \A n \in Occupied(board) : board'[n].gate = board[n].gate
          /\ Cardinality(Occupied(board')) <= Cardinality(Occupied(board)) + 1]_vars

\* C28: an action changes only the hand of the player who acts: after any
\* placement or discard by one player the other player's hand is identical,
\* the same cards in the same order, to what it was before, and the input
\* vector is unchanged.
C28_OtherHandAndInputsKept ==
    [][/\ (HumanPlaces \/ HumanDiscarded) =>
              /\ players'[Other(turn)] = players[Other(turn)]
              /\ inputs' = inputs
       /\ AIResolves =>
              /\ players'["P1"] = players["P1"]
              /\ inputs' = inputs]_vars

\* the AI has discarded; P1, whose turn it is, holds the hand with the one
\* card that is no NAND
C28_Witness ==
    /\ last.op = "performAIMove" /\ last.drawn = INITIAL_HAND_SIZE
    /\ turn = "P1"
    /\ OddCount(players["P1"]) = 1
    /\ OddCount(players["P2"]) = 0

====
